---- MODULE Spec2Model ----
(***************************************************************************)
(* A model of the ColorQR web application (src/qrcodegen.py): the session  *)
(* and entitlement helpers, the DynamicLink store with its legacy          *)
(* flat-file fallback, and the generate_qr render pipeline.                *)
(*                                                                         *)
(* Strings the code transforms (URLs, e-mail addresses, labels) are        *)
(* sequences of one-character strings, so that strip(), lower() and        *)
(* startswith() are computed, not assumed.                                 *)
(***************************************************************************)
EXTENDS Integers, Sequences, FiniteSets, TLC

VARIABLES
    DEBUG_MODE,   \* the DEBUG_MODE environment flag (line 50), fixed at start
    session,      \* the Flask session of the client whose requests are served
    users,        \* the UserStatus table, keyed by lower-cased e-mail
    links,        \* the DynamicLink table: a set of rows
    legacy,       \* the contents of the legacy flat file DYN_PATH
    files,        \* DATA_DIR: the names <<uid, ext>> of the per-render artifacts in it
    dynfiles,     \* DYNAMIC_QR_DIR: the artifacts kept per dynamic id
    nextUid,      \* how many uuid4() artifact ids have been drawn so far
    procs,        \* the in-flight /dynamic/create requests (concurrent creation)
    clock,        \* datetime.utcnow(), in ticks
    resp          \* the last request served, the response it got, the bytes it wrote

vars == <<DEBUG_MODE, session, users, links, legacy, files, dynfiles, nextUid, procs, clock, resp>>

-----------------------------------------------------------------------------
(* Bounds of the model.                                                      *)

\* Number of artifact ids (uuid4 values) the model lets generate_qr draw.
MaxRenders == 2

\* The renders in a run of the full render pipeline.
RenderRuns == 1

\* The ticks of the clock in a run in which time passes.
MaxClock == 2

\* Number of concurrent /dynamic/create requests.
NumProcs == 2

\* The longest colour string handed to the parser.
MaxHexLen == 7

-----------------------------------------------------------------------------
(* Strings.                                                                  *)

\* All sequences over set S of length at most n.
SeqsUpTo(S, n) == UNION {[1..k -> S] : k \in 0..n}

HTTP  == <<"h", "t", "t", "p", ":", "/", "/">>
HTTPS == <<"h", "t", "t", "p", "s", ":", "/", "/">>

\* str.lower() on one character (the letters the model's inputs use).
Lower(c) ==
    CASE c = "H" -> "h"
      [] c = "T" -> "t"
      [] c = "P" -> "p"
      [] c = "S" -> "s"
      [] c = "B" -> "b"
      [] c = "L" -> "l"
      [] c = "F" -> "f"
      [] OTHER -> c

LowerStr(s) == [i \in 1..Len(s) |-> Lower(s[i])]

IsSpace(c) == c \in {" ", "\t", "\n"}

RECURSIVE LStrip(_)
LStrip(s) == IF s # <<>> /\ IsSpace(Head(s)) THEN LStrip(Tail(s)) ELSE s

RECURSIVE RStrip(_)
RStrip(s) ==
    IF s # <<>> /\ IsSpace(s[Len(s)]) THEN RStrip(SubSeq(s, 1, Len(s) - 1)) ELSE s

\* str.strip()
Strip(s) == RStrip(LStrip(s))

\* str.startswith(p)
StartsWith(s, p) == Len(s) >= Len(p) /\ SubSeq(s, 1, Len(p)) = p

\* The link stripped, whatever it starts with.
stripped_url(link) == Strip(link)

normalize_url(link) ==
    LET v   == Strip(link)
        low == LowerStr(v)
    IN  IF v = <<>> THEN <<>>
        ELSE IF StartsWith(low, HTTP) \/ StartsWith(low, HTTPS) THEN v
        ELSE HTTPS \o v

\* (payload.get("label") or "").strip() or None
\* None where the code keeps a string or None: no string at all.
NoStr == <<>>
clean_label(raw) == IF Strip(raw) = <<>> THEN NoStr ELSE Strip(raw)

\* None for a session key holding a path or a file name.
None == "None"

-----------------------------------------------------------------------------
(* Identities.                                                               *)

Root  == <<"r", "o", "o", "t">>
Alice == <<"a", "l">>
Bob   == <<"B", "o", "b">>

\* The e-mail addresses Google may report at login.
LoginEmails == {Root, Alice, Bob}

\* The PREMIUM_EMAILS environment list, lower-cased as line 99 does.
PREMIUM_EMAILS == {LowerStr(Root)}

DbEmails == {LowerStr(e) : e \in LoginEmails}

\* session.get("user") is None (or carries no e-mail).
NoUser == <<>>
\* scalar_one_or_none() found no row.
NoRow  == [exists |-> FALSE]

EmptySession ==
    [user |-> NoUser, one_time |-> FALSE, pro_debug |-> FALSE,
     custom_icon_path |-> None, download_name |-> NoStr]

current_user == session.user

\* (u or {}).get("email", "").lower()
caller_email == IF current_user = NoUser THEN <<>> ELSE LowerStr(current_user)

is_pro ==
    \/ caller_email # <<>> /\ caller_email \in PREMIUM_EMAILS
    \/ /\ caller_email # <<>>
       /\ users[caller_email] # NoRow
       /\ users[caller_email].is_sub_pro
       /\ users[caller_email].subscription_status = "active"
    \/ session.pro_debug

is_one_time == session.one_time

is_paid == is_pro \/ is_one_time

\* UserStatus(email=..., has_one_time_access=False) with the column defaults.
NewUserStatus ==
    [exists |-> TRUE, has_one_time_access |-> FALSE, is_sub_pro |-> FALSE,
     subscription_status |-> None, stripe_customer_id |-> None]

\* The table after get_or_create_user(email), and the row it returns.
get_or_create_user(email) ==
    IF users[LowerStr(email)] = NoRow
    THEN [users EXCEPT ![LowerStr(email)] = NewUserStatus]
    ELSE users

-----------------------------------------------------------------------------
(* The legacy flat file.                                                     *)

Ids == {"id1", "id2"}

\* data.get(id) is None.
NoItem == [keys |-> {}]

LegacyUrl == HTTP \o <<"o", "l", "d">>

\* What DYN_PATH may hold: nothing readable, JSON that is no object, or an
\* object mapping ids to items with or without a "url" key.
LegacyFiles ==
    { [kind |-> "unreadable"],
      [kind |-> "not_dict"],
      [kind |-> "dict", data |-> [i \in Ids |-> NoItem]],
      [kind |-> "dict",
       data |-> [i \in Ids |-> IF i = "id1" THEN [keys |-> {"url", "created"}, url |-> LegacyUrl]
                                            ELSE NoItem]],
      [kind |-> "dict",
       data |-> [i \in Ids |-> IF i = "id1" THEN [keys |-> {"created"}] ELSE NoItem]] }

EmptyLegacy == [kind |-> "dict", data |-> [i \in Ids |-> NoItem]]

-----------------------------------------------------------------------------
Init ==
    /\ DEBUG_MODE \in BOOLEAN
    /\ session = EmptySession
    /\ users = [e \in DbEmails |-> NoRow]
    /\ links = {}
    /\ legacy \in LegacyFiles
    /\ files = {}
    /\ dynfiles = {}
    /\ nextUid = 0
    /\ procs = [p \in 1..NumProcs |-> [pc |-> "idle"]]
    /\ clock = 0
    /\ resp = [op |-> "none"]

-----------------------------------------------------------------------------
(* Login, logout and the debug toggles.                                      *)

\* These routes answer with a redirect to a page of the site.
PageResp == [op |-> "page"]

auth_callback(user_email) ==
    LET table == get_or_create_user(user_email)
        row   == table[LowerStr(user_email)]
    IN  /\ users' = table
        /\ session' = [session EXCEPT !.user = user_email,
                                      !.one_time = row.has_one_time_access]
        /\ resp' = PageResp
        /\ UNCHANGED <<clock, DEBUG_MODE, links, legacy, files, dynfiles, nextUid, procs>>

logout ==
    /\ session' = EmptySession
    /\ resp' = PageResp
    /\ UNCHANGED <<clock, DEBUG_MODE, users, links, legacy, files, dynfiles, nextUid, procs>>

unlock_pro ==
    /\ DEBUG_MODE
    /\ session' = [session EXCEPT !.pro_debug = TRUE]
    /\ resp' = PageResp
    /\ UNCHANGED <<clock, DEBUG_MODE, users, links, legacy, files, dynfiles, nextUid, procs>>

lock_pro ==
    /\ DEBUG_MODE
    /\ session' = [session EXCEPT !.pro_debug = FALSE]
    /\ resp' = PageResp
    /\ UNCHANGED <<clock, DEBUG_MODE, users, links, legacy, files, dynfiles, nextUid, procs>>

unlock_one_time ==
    /\ DEBUG_MODE
    /\ session' = [session EXCEPT !.one_time = TRUE]
    /\ resp' = PageResp
    /\ UNCHANGED <<clock, DEBUG_MODE, users, links, legacy, files, dynfiles, nextUid, procs>>

lock_one_time ==
    /\ DEBUG_MODE
    /\ session' = [session EXCEPT !.one_time = FALSE]
    /\ resp' = PageResp
    /\ UNCHANGED <<clock, DEBUG_MODE, users, links, legacy, files, dynfiles, nextUid, procs>>

-----------------------------------------------------------------------------
(* Stripe checkout return.                                                   *)

payment_success(mode, payment_status, customer_email, sub_status, customer) ==
    LET user_email == IF customer_email # NoStr THEN customer_email ELSE current_user
        table      == get_or_create_user(user_email)
        key        == LowerStr(user_email)
    IN  /\ IF mode = "payment"
           THEN IF payment_status = "paid"
                THEN /\ session' = [session EXCEPT !.one_time = TRUE]
                     /\ users' = IF user_email # NoStr
                                 THEN [table EXCEPT ![key].has_one_time_access = TRUE]
                                 ELSE users
                ELSE UNCHANGED <<session, users>>
           ELSE /\ users' = IF user_email # NoStr
                            THEN [table EXCEPT ![key].is_sub_pro = TRUE,
                                               ![key].subscription_status = sub_status,
                                               ![key].stripe_customer_id = customer]
                            ELSE users
                /\ UNCHANGED session
        /\ resp' = PageResp
        /\ UNCHANGED <<clock, DEBUG_MODE, links, legacy, files, dynfiles, nextUid, procs>>

\* A webhook that acts on created and updated events only.
row_after_update_only(row, event_type, status) ==
    IF event_type \in {"customer.subscription.created", "customer.subscription.updated"}
    THEN [row EXCEPT !.subscription_status = status,
                     !.is_sub_pro = status \in {"trialing", "active"}]
    ELSE row

\* Lines 909-932: the row of the event's customer after the event.
row_after_event(row, event_type, status) ==
    IF event_type \in {"customer.subscription.created", "customer.subscription.updated"}
    THEN [row EXCEPT !.subscription_status = status,
                     !.is_sub_pro = status \in {"trialing", "active"}]
    ELSE IF event_type = "customer.subscription.deleted"
    THEN [row EXCEPT !.subscription_status = "canceled", !.is_sub_pro = FALSE]
    ELSE row

\* filter_by(stripe_customer_id=customer_id): the e-mails of the matching rows.
rows_of_customer(customer) ==
    {e \in DbEmails : users[e] # NoRow /\ users[e].stripe_customer_id = customer}

\* POST /stripe/webhook: an event of Stripe, with a signature that verifies
\* against STRIPE_WEBHOOK_SECRET or not.
stripe_webhook(event_type, customer, status, signed) ==
    LET found  == rows_of_customer(customer)
        acts   == event_type \in {"customer.subscription.created",
                                  "customer.subscription.updated",
                                  "customer.subscription.deleted"}
        answer(code) == [op |-> "webhook", code |-> code, type |-> event_type,
                         customer |-> customer, status |-> status]
    IN  /\ IF ~signed
           THEN /\ resp' = answer(400)
                /\ UNCHANGED users
           ELSE IF acts /\ Cardinality(found) > 1
           THEN /\ resp' = answer(500)
                /\ UNCHANGED users
           ELSE /\ resp' = answer(200)
                /\ users' = [e \in DbEmails |->
                                IF e \in found THEN row_after_event(users[e], event_type, status)
                                ELSE users[e]]
        /\ UNCHANGED <<clock, DEBUG_MODE, session, links, legacy, files, dynfiles, nextUid, procs>>

-----------------------------------------------------------------------------
(* The DynamicLink store.                                                    *)

\* What the request bodies of the model carry as target and label.
CreateUrls  == { <<" ">>, <<" ", "a", ".", "c", "o">> }
UpdateUrls  == { <<" ">>, <<"H", "T", "T", "P", ":", "/", "/", "b">> }

\* url_for("dynamic_redirect", id=id_, _external=True): the site root, /r/, the id.
SiteRoot == HTTPS \o <<"q", "r">>
short_url(id) == SiteRoot \o <<"/", "r", "/", id>>

\* The number of candidate ids _create_dynamic_link_in_db tries.
MaxTries == 5
NoId == "NoId"

\* db.session.get(DynamicLink, id): the rows stored under the id.
rows_of(id) == {r \in links : r.id = id}
get_link(id) == CHOOSE r \in rows_of(id) : TRUE

\* The owner _create_dynamic_link_in_db records: the caller's e-mail, lower-cased, or None.
owner_of_caller == IF current_user # NoUser THEN LowerStr(current_user) ELSE NoStr

\* The id the loop of _create_dynamic_link_in_db settles on for the candidates
\* uuid4 hands it: the first that is not in the table, or none of the five.
first_free(cands) ==
    LET free == {k \in 1..MaxTries : rows_of(cands[k]) = {}}
    IN  IF free = {} THEN NoId
        ELSE cands[CHOOSE k \in free : \A j \in free : k <= j]

\* The ids _create_dynamic_link_in_db can settle on, over every run of uuid4.
generated_ids == {first_free(c) : c \in [1..MaxTries -> Ids]}

\* DynamicLink(...): created_at and updated_at default to utcnow().
new_link(id, target, label) ==
    [id |-> id, owner_email |-> owner_of_caller, target_url |-> target, label |-> label,
     created_at |-> clock, updated_at |-> clock]

\* An update that stamps the row as created anew.
set_fields_restamped(link, target, label) ==
    [link EXCEPT !.target_url = target, !.label = label,
                 !.created_at = clock, !.updated_at = clock]

\* link.target_url = target; link.label = label; commit: the UPDATE is sent
\* if a column changed, and then updated_at takes onupdate=utcnow().
set_fields(link, target, label) ==
    IF link.target_url = target /\ link.label = label THEN link
    ELSE [link EXCEPT !.target_url = target, !.label = label, !.updated_at = clock]

\* Time passes.
tick ==
    /\ clock < MaxClock
    /\ clock' = clock + 1
    /\ UNCHANGED <<DEBUG_MODE, session, users, links, legacy, files, dynfiles, nextUid, procs, resp>>

dynamic_create(target_in, label_in, id) ==
    LET target == normalize_url(target_in)
        label  == clean_label(label_in)
    IN  /\ IF ~is_pro
           THEN /\ resp' = [op |-> "create", code |-> 403, error |-> "Pro required"]
                /\ UNCHANGED links
           ELSE IF target = <<>>
           THEN /\ resp' = [op |-> "create", code |-> 400, error |-> "Target URL required"]
                /\ UNCHANGED links
           ELSE IF id = NoId
           THEN /\ resp' = [op |-> "create", code |-> 500, error |-> "Could not generate unique id"]
                /\ UNCHANGED links
           ELSE /\ links' = links \cup {new_link(id, target, label)}
                /\ resp' = [op |-> "create", code |-> 200, id |-> id, short |-> short_url(id)]
        /\ UNCHANGED <<clock, DEBUG_MODE, session, users, legacy, files, dynfiles, nextUid, procs>>

\* Lines 1151 and 1183: whether the caller is refused as neither owner nor admin.
not_allowed(link, email) ==
    /\ link.owner_email # NoStr
    /\ link.owner_email # email
    /\ email \notin PREMIUM_EMAILS

dynamic_update(id, target_in, label_in) ==
    LET email  == LowerStr(current_user)
        target == normalize_url(target_in)
        label  == clean_label(label_in)
    IN  /\ IF ~is_pro
           THEN /\ resp' = [op |-> "update", id |-> id, code |-> 403, error |-> "Pro required"]
                /\ UNCHANGED links
           ELSE IF current_user = NoUser
           THEN /\ resp' = [op |-> "update", id |-> id, code |-> 401, error |-> "Auth required"]
                /\ UNCHANGED links
           ELSE IF rows_of(id) = {}
           THEN /\ resp' = [op |-> "update", id |-> id, code |-> 404, error |-> "Not found"]
                /\ UNCHANGED links
           ELSE IF not_allowed(get_link(id), email)
           THEN /\ resp' = [op |-> "update", id |-> id, code |-> 403, error |-> "Not allowed"]
                /\ UNCHANGED links
           ELSE IF target = <<>>
           THEN /\ resp' = [op |-> "update", id |-> id, code |-> 400, error |-> "Target URL required"]
                /\ UNCHANGED links
           ELSE /\ links' = (links \ {get_link(id)}) \cup
                            {set_fields(get_link(id), target, label)}
                /\ resp' = [op |-> "update", id |-> id, code |-> 200, error |-> "ok"]
        /\ UNCHANGED <<clock, DEBUG_MODE, session, users, legacy, files, dynfiles, nextUid, procs>>

\* A delete that also removes the files kept under the id.
dynamic_delete_unlinking(id) ==
    LET email == LowerStr(current_user)
    IN  /\ IF ~is_pro
           THEN /\ resp' = [op |-> "delete", id |-> id, code |-> 403, error |-> "Pro required"]
                /\ UNCHANGED <<links, dynfiles>>
           ELSE IF current_user = NoUser
           THEN /\ resp' = [op |-> "delete", id |-> id, code |-> 401, error |-> "Auth required"]
                /\ UNCHANGED <<links, dynfiles>>
           ELSE IF rows_of(id) = {}
           THEN /\ resp' = [op |-> "delete", id |-> id, code |-> 404, error |-> "Not found"]
                /\ UNCHANGED <<links, dynfiles>>
           ELSE IF not_allowed(get_link(id), email)
           THEN /\ resp' = [op |-> "delete", id |-> id, code |-> 403, error |-> "Not allowed"]
                /\ UNCHANGED <<links, dynfiles>>
           ELSE /\ links' = links \ {get_link(id)}
                /\ dynfiles' = {g \in dynfiles : g.name # id}
                /\ resp' = [op |-> "delete", id |-> id, code |-> 200, error |-> "ok"]
        /\ UNCHANGED <<clock, DEBUG_MODE, session, users, legacy, files, nextUid, procs>>

dynamic_delete(id) ==
    LET email == LowerStr(current_user)
    IN  /\ IF ~is_pro
           THEN /\ resp' = [op |-> "delete", id |-> id, code |-> 403, error |-> "Pro required"]
                /\ UNCHANGED links
           ELSE IF current_user = NoUser
           THEN /\ resp' = [op |-> "delete", id |-> id, code |-> 401, error |-> "Auth required"]
                /\ UNCHANGED links
           ELSE IF rows_of(id) = {}
           THEN /\ resp' = [op |-> "delete", id |-> id, code |-> 404, error |-> "Not found"]
                /\ UNCHANGED links
           ELSE IF not_allowed(get_link(id), email)
           THEN /\ resp' = [op |-> "delete", id |-> id, code |-> 403, error |-> "Not allowed"]
                /\ UNCHANGED links
           ELSE /\ links' = links \ {get_link(id)}
                /\ resp' = [op |-> "delete", id |-> id, code |-> 200, error |-> "ok"]
        /\ UNCHANGED <<clock, DEBUG_MODE, session, users, legacy, files, dynfiles, nextUid, procs>>

\* The ids a client may put in /r/<id>: the ids of the model and one nobody issued.
UrlIds == Ids \cup {"idx"}

DefaultLanding == HTTPS \o <<"c", "o", "l", "o", "r", "q", "r", ".", "a", "p", "p", "/">>

\* data.get(id) on the legacy file's object.
legacy_item(id) == IF id \in DOMAIN legacy.data THEN legacy.data[id] ELSE NoItem

\* The legacy file consulted before the table.
redirect_legacy_first(id) ==
    IF /\ legacy.kind = "dict"
       /\ legacy_item(id) # NoItem
       /\ "url" \in legacy_item(id).keys
    THEN legacy_item(id).url
    ELSE IF rows_of(id) # {} /\ get_link(id).target_url # <<>>
    THEN get_link(id).target_url
    ELSE DefaultLanding

\* Where dynamic_redirect sends the client.
redirect_location(id) ==
    IF rows_of(id) # {} /\ get_link(id).target_url # <<>>
    THEN get_link(id).target_url
    ELSE IF /\ legacy.kind = "dict"
            /\ legacy_item(id) # NoItem
            /\ "url" \in legacy_item(id).keys
    THEN legacy_item(id).url
    ELSE DefaultLanding

dynamic_redirect(id) ==
    /\ resp' = [op |-> "redirect", id |-> id, code |-> 302, location |-> redirect_location(id)]
    /\ UNCHANGED <<clock, DEBUG_MODE, session, users, links, legacy, files, dynfiles, nextUid, procs>>

-----------------------------------------------------------------------------
(* Colours and contrast.                                                     *)

Black == <<"#", "0", "0", "0", "0", "0", "0">>
White == <<"#", "f", "f", "f", "f", "f", "f">>
Gray7 == <<"#", "7", "7", "7", "7", "7", "7">>
Gray8 == <<"#", "8", "8", "8", "8", "8", "8">>

HexDigits == <<"0", "1", "2", "3", "4", "5", "6", "7", "8", "9", "a", "b", "c", "d", "e", "f">>
UpperHex  == <<"0", "1", "2", "3", "4", "5", "6", "7", "8", "9", "A", "B", "C", "D", "E", "F">>

IsHexDigit(c) == \E k \in 1..16 : HexDigits[k] = c \/ UpperHex[k] = c
HexVal(c) == (CHOOSE k \in 1..16 : HexDigits[k] = c \/ UpperHex[k] = c) - 1

\* str.lstrip("#")
RECURSIVE LStripHash(_)
LStripHash(s) == IF s # <<>> /\ Head(s) = "#" THEN LStripHash(Tail(s)) ELSE s

\* "".join(c * 2 for c in h)
RECURSIVE Doubled(_)
Doubled(s) == IF s = <<>> THEN <<>> ELSE <<Head(s), Head(s)>> \o Doubled(Tail(s))

\* h[i:j] with Python's indices (0-based, j exclusive, clipped to the string).
Slice(s, i, j) ==
    LET hi == IF j < Len(s) THEN j ELSE Len(s)
    IN  IF i >= hi THEN <<>> ELSE SubSeq(s, i + 1, hi)

\* Whether int(t, 16) succeeds on a slice of hex digits, and its value.
IntOk(t) == t # <<>> /\ \A k \in 1..Len(t) : IsHexDigit(t[k])
RECURSIVE Int16(_)
Int16(t) == IF t = <<>> THEN 0 ELSE 16 * Int16(SubSeq(t, 1, Len(t) - 1)) + HexVal(t[Len(t)])

hex_to_rgb(hex) ==
    LET h0 == LStripHash(IF hex = <<>> THEN Black ELSE hex)
        h  == IF Len(h0) = 3 THEN Doubled(h0) ELSE h0
        parts == <<Slice(h, 0, 2), Slice(h, 2, 4), Slice(h, 4, 6)>>
    IN  IF \A k \in 1..3 : IntOk(parts[k])
        THEN <<Int16(parts[1]), Int16(parts[2]), Int16(parts[3])>>
        ELSE <<0, 0, 0>>

normalize_hex(hex) ==
    LET h0 == Strip(hex)
        h1 == IF h0 = <<>> THEN h0 ELSE IF Head(h0) # "#" THEN <<"#">> \o h0 ELSE h0
        h2 == IF Len(h1) = 4 THEN <<"#">> \o Doubled(Tail(h1)) ELSE h1
    IN  IF h0 = <<>> THEN Black ELSE LowerStr(h2)

\* _srgb_gamma(c / 255.0) in units of 1e-5, for c = 0..255 (index c + 1).
SrgbGammaE5 ==
    << 0, 30, 61, 91, 121, 152, 182, 212, 243, 273, 304, 335, 368, 402, 439, 478,
       518, 561, 605, 651, 700, 750, 802, 857, 913, 972, 1033, 1096, 1161, 1229, 1298, 1370,
       1444, 1521, 1600, 1681, 1764, 1850, 1938, 2029, 2122, 2217, 2315, 2416, 2519, 2624, 2732, 2843,
       2956, 3071, 3190, 3310, 3434, 3560, 3689, 3820, 3955, 4092, 4231, 4374, 4519, 4667, 4817, 4971,
       5127, 5286, 5448, 5613, 5781, 5951, 6125, 6301, 6480, 6663, 6848, 7036, 7227, 7421, 7619, 7819,
       8022, 8228, 8438, 8650, 8866, 9084, 9306, 9531, 9759, 9990, 10224, 10462, 10702, 10946, 11193, 11444,
       11697, 11954, 12214, 12477, 12744, 13014, 13287, 13563, 13843, 14126, 14413, 14703, 14996, 15293, 15593, 15896,
       16203, 16513, 16827, 17144, 17465, 17789, 18116, 18447, 18782, 19120, 19462, 19807, 20156, 20508, 20864, 21223,
       21586, 21953, 22323, 22697, 23074, 23455, 23840, 24228, 24620, 25016, 25415, 25818, 26225, 26636, 27050, 27468,
       27889, 28315, 28744, 29177, 29614, 30054, 30499, 30947, 31399, 31855, 32314, 32778, 33245, 33716, 34191, 34670,
       35153, 35640, 36131, 36625, 37124, 37626, 38133, 38643, 39157, 39676, 40198, 40724, 41254, 41789, 42327, 42869,
       43415, 43966, 44520, 45079, 45641, 46208, 46778, 47353, 47932, 48515, 49102, 49693, 50289, 50888, 51492, 52100,
       52712, 53328, 53948, 54572, 55201, 55834, 56471, 57112, 57758, 58408, 59062, 59720, 60383, 61050, 61721, 62396,
       63076, 63760, 64448, 65141, 65837, 66539, 67244, 67954, 68669, 69387, 70110, 70838, 71569, 72306, 73046, 73791,
       74540, 75294, 76052, 76815, 77582, 78354, 79130, 79910, 80695, 81485, 82279, 83077, 83880, 84687, 85499, 86316,
       87137, 87962, 88792, 89627, 90466, 91310, 92158, 93011, 93869, 94731, 95597, 96469, 97345, 98225, 99110, 100000 >>

srgb_gamma(c) == SrgbGammaE5[c + 1]

\* _get_luminance in units of 1e-5.
get_luminance(rgb) ==
    (2126 * srgb_gamma(rgb[1]) + 7152 * srgb_gamma(rgb[2]) + 722 * srgb_gamma(rgb[3])) \div 10000

\* The minimum ratio 4.5 as the fraction MinRatioNum / MinRatioDen.
MinRatioNum == 9
MinRatioDen == 2

\* The ratio of the first colour's luminance to the second's, unordered.
contrast_ordered(c1_hex, c2_hex) ==
    LET L1 == get_luminance(hex_to_rgb(c1_hex))
        L2 == get_luminance(hex_to_rgb(c2_hex))
    IN  MinRatioDen * (L1 + 5000) >= MinRatioNum * (L2 + 5000)

\* A check that lets every pair of colours through.
contrast_unchecked(c1_hex, c2_hex) == TRUE

\* (L_max + 0.05) / (L_min + 0.05) >= 4.5
check_contrast(c1_hex, c2_hex) ==
    LET L1 == get_luminance(hex_to_rgb(c1_hex))
        L2 == get_luminance(hex_to_rgb(c2_hex))
        L_max == IF L1 >= L2 THEN L1 ELSE L2
        L_min == IF L1 >= L2 THEN L2 ELSE L1
    IN  MinRatioDen * (L_max + 5000) >= MinRatioNum * (L_min + 5000)

\* _hex_to_rgb(h) on the colour string of the request at hand.
hex_to_rgb_call ==
    /\ resp.op = "hex_arg"
    /\ resp' = [op |-> "hex_to_rgb", h |-> resp.h, rgb |-> hex_to_rgb(resp.h)]
    /\ UNCHANGED <<clock, DEBUG_MODE, session, users, links, legacy, files, dynfiles, nextUid, procs>>

\* POST /api/check_contrast, on the two colours of the request at hand.
check_contrast_api ==
    /\ resp.op = "contrast_arg"
    /\ resp' = [op |-> "check_contrast", fill_color |-> resp.fill_color,
                back_color |-> resp.back_color,
                safe |-> check_contrast(resp.fill_color, resp.back_color)]
    /\ UNCHANGED <<clock, DEBUG_MODE, session, users, links, legacy, files, dynfiles, nextUid, procs>>

-----------------------------------------------------------------------------
(* The render pipeline.                                                      *)

DataTypes == {"url", "wifi", "text", "vcard", "dynamic"}

\* A run of 1300 characters, written as one element of a payload.
LongRun == "x*1300"
RECURSIVE payload_len(_)
payload_len(s) ==
    IF s = <<>> THEN 0 ELSE (IF Head(s) = LongRun THEN 1300 ELSE 1) + payload_len(Tail(s))

\* What qr.make(fit=True) can hold at ERROR_CORRECT_H: the bytes of a version-40 symbol.
QrCapacityH == 1273
\* An encoder without a largest symbol.
encoder_unbounded(raw) == TRUE

encoder_accepts(raw) == payload_len(raw) <= QrCapacityH

\* {"sm": 256, "md": 512, "lg": 1024}.get(size_key, 512)
px_of(size_key) ==
    CASE size_key = "sm" -> 256
      [] size_key = "md" -> 512
      [] size_key = "lg" -> 1024
      [] OTHER -> 512

box_of(px) == IF px >= 512 THEN 10 ELSE 8

\* The size as asked for, whoever asks.
requested_size(size) == size

\* Lines 1236-1238: the size a request is rendered at.
effective_size(size) == IF size = "lg" /\ ~is_paid THEN "md" ELSE size

\* The two data types refused to callers that have not paid at all.
type_refused_unpaid(data_type) == data_type \in {"vcard", "dynamic"} /\ ~is_paid

\* Lines 1205-1208: the data types refused to this caller.
type_refused(data_type) == data_type \in {"vcard", "dynamic"} /\ ~is_pro

\* qr.make_image(...).convert("RGBA"): the symbol of raw in the two colours.
make_image(raw, fill_color, back_color, box) ==
    [encoded |-> raw, fill |-> fill_color, back |-> back_color, box |-> box,
     badge |-> "none", size |-> 0, margin |-> 0, watermark |-> "none", quality |-> 0]

\* Badges for callers that have paid only.
overlay_paid(img, data_type) ==
    IF data_type = "wifi" /\ is_paid THEN [img EXCEPT !.badge = "wifi"]
    ELSE IF data_type = "vcard" /\ is_paid
    THEN [img EXCEPT !.badge = IF session.custom_icon_path # None THEN "custom" ELSE "user"]
    ELSE img

\* Lines 1262-1270: the badge drawn over the symbol.
overlay(img, data_type) ==
    IF data_type = "wifi" THEN [img EXCEPT !.badge = "wifi"]
    ELSE IF data_type = "vcard" /\ is_pro
    THEN [img EXCEPT !.badge = IF session.custom_icon_path # None THEN "custom" ELSE "user"]
    ELSE img

resize(img, px) == [img EXCEPT !.size = px]

add_watermark_border(img) ==
    LET side == img.size
        m    == IF (side * 5) \div 100 > 24 THEN (side * 5) \div 100 ELSE 24
    IN  [img EXCEPT !.size = side + 2 * m, !.margin = m, !.watermark = "Created by ColorQR.app"]

\* The fonts _load_ttf and ImageFont.load_default can hand to the framer: a
\* TrueType font of the size asked for, or the built-in bitmap font.
Fonts == {"ttf", "bitmap"}

Max2(a, b) == IF a >= b THEN a ELSE b
Min2(a, b) == IF a <= b THEN a ELSE b

\* m = max(int(side * margin_scale), 24), margin_scale = 0.05
margin_of(side) == Max2((side * 5) \div 100, 24)

\* fpx = max(int(side * font_scale), 22), font_scale = 0.05
fpx_of(side) == Max2((side * 5) \div 100, 22)

\* th = int(getattr(font, "size", 12) * 1.2): the height of a text block.
th_of(font, fpx) == ((IF font = "ttf" THEN fpx ELSE 12) * 12) \div 10

\* strip_h_h = max(int(fpx * 1.35), block_h.height + 2)
strip_h_h(font, fpx) == Max2((fpx * 135) \div 100, th_of(font, fpx) + 2)

\* strip_v_w = max(int(fpx * 1.10), block_v.width + 2); block_v is block_h
\* turned by 90 degrees, so its width is th.
strip_v_w(font, fpx) == Max2((fpx * 110) \div 100, th_of(font, fpx) + 2)

\* The pixels with left <= x < right and top <= y < bottom.
rect(left, top, right, bottom) == [left |-> left, top |-> top, right |-> right, bottom |-> bottom]

\* frame.alpha_composite(strip, dest) changes the part of the strip that
\* lies on the frame.
clipped(r, fw, fh) == rect(r.left, r.top, Min2(r.right, fw), Min2(r.bottom, fh))

\* lum(back_rgb) > 0.6, on the components without gamma.
light_back(rgb) == 2126 * rgb[1] + 7152 * rgb[2] + 722 * rgb[3] > 1530000

\* What _add_watermark_border makes of a W x H image: the frame, where the
\* image is put on it, the four strips composited on it, and the band of each
\* strip that the text blocks take.
watermark_frame(W, H, back_hex, font) ==
    LET side == Min2(W, H)
        m    == margin_of(side)
        fpx  == fpx_of(side)
        th   == th_of(font, fpx)
        sh   == strip_h_h(font, fpx)
        sv   == strip_v_w(font, fpx)
        fw   == W + 2 * m
        fh   == H + 2 * m
        by   == sh \div 2 - th \div 2
        bx   == sv \div 2 - th \div 2
        tile_h(y_top)  == clipped(rect(0, y_top, fw, y_top + sh), fw, fh)
        tile_v(x_left) == clipped(rect(x_left, 0, x_left + sv, fh), fw, fh)
        band_h(y_top)  == clipped(rect(0, y_top + by, fw, y_top + by + th), fw, fh)
        band_v(x_left) == clipped(rect(x_left + bx, 0, x_left + bx + th, fh), fw, fh)
    IN  [width |-> fw, height |-> fh,
         back |-> hex_to_rgb(back_hex),
         image |-> rect(m, m, m + W, m + H),
         strips |-> {tile_h(0), tile_h(H + m), tile_v(0), tile_v(W + m)},
         blocks |-> {band_h(0), band_h(H + m), band_v(0), band_v(W + m)},
         text_col |-> IF light_back(hex_to_rgb(back_hex)) THEN 30 ELSE 245,
         stroke_w |-> Max2(1, IF font = "ttf" THEN fpx \div 14 ELSE 1)]

\* A call of _add_watermark_border on the resized image of a render.
add_watermark_border_call ==
    /\ resp.op = "frame_arg"
    /\ resp' = [op |-> "add_watermark_border", W |-> resp.W, H |-> resp.H,
                back_hex |-> resp.back_hex, font |-> resp.font,
                frame |-> watermark_frame(resp.W, resp.H, resp.back_hex, resp.font)]
    /\ UNCHANGED <<clock, DEBUG_MODE, session, users, links, legacy, files, dynfiles, nextUid, procs>>

\* The frame for every caller without a subscription.
framed_unless_pro(img) == IF ~is_pro THEN add_watermark_border(img) ELSE img

\* Lines 1274-1283: the frame is added for callers that have not paid.
framed(img) == IF ~is_paid THEN add_watermark_border(img) ELSE img

\* A raster image stamped with the number of images made before it.
save_jpg_stamped(img, quality) == [img EXCEPT !.quality = quality + nextUid]

save_jpg_from_rgba(img, quality) == [img EXCEPT !.quality = quality]

\* The raster image generate_qr builds from the payload it encodes.
render_jpg(data_type, raw, fill_color, back_color, size_key) ==
    LET px == px_of(size_key)
    IN  save_jpg_from_rgba(
            framed(resize(overlay(make_image(raw, fill_color, back_color, box_of(px)), data_type), px)),
            IF is_one_time \/ is_pro THEN 95 ELSE 92)

gen_svg_bytes(raw, fill_color, back_color) ==
    [encoded |-> raw, fill |-> normalize_hex(fill_color), back |-> normalize_hex(back_color),
     box |-> 10]

\* A vector image for every caller that has paid.
svg_for_paid == is_paid

\* Line 1299: a vector image is generated for Pro callers.
svg_allowed == is_pro

-----------------------------------------------------------------------------
(* The suggested file name.                                                  *)

\* The index of the first element of s that is in set cs, or Len(s) + 1.
find_first(s, cs) ==
    LET hits == {k \in 1..Len(s) : s[k] \in cs}
    IN  IF hits = {} THEN Len(s) + 1 ELSE CHOOSE k \in hits : \A j \in hits : k <= j

Letters == {"a", "b", "c", "h", "l", "o", "p", "q", "r", "s", "t", "w", "x",
            "B", "H", "L", "P", "S", "T"}

\* urlparse(url).netloc: what follows "scheme://" up to the next "/", "?" or "#".
netloc(url) ==
    LET colon  == find_first(url, {":"})
        scheme == SubSeq(url, 1, colon - 1)
        has_scheme == /\ colon <= Len(url)
                      /\ scheme # <<>>
                      /\ \A k \in 1..Len(scheme) : scheme[k] \in Letters
        rest   == IF has_scheme THEN SubSeq(url, colon + 1, Len(url)) ELSE url
        after  == SubSeq(rest, 3, Len(rest))
    IN  IF StartsWith(rest, <<"/", "/">>)
        THEN SubSeq(after, 1, find_first(after, {"/", "?", "#"}) - 1)
        ELSE <<>>

\* host.replace("www.", "")
RECURSIVE drop_www(_)
drop_www(s) ==
    IF s = <<>> THEN <<>>
    ELSE IF StartsWith(s, <<"w", "w", "w", ".">>) THEN drop_www(SubSeq(s, 5, Len(s)))
    ELSE <<Head(s)>> \o drop_www(Tail(s))

\* The whole host as the base of the file name.
download_host(data_type, raw_data) ==
    IF data_type \in {"url", "dynamic"}
    THEN IF netloc(raw_data) # <<>> THEN netloc(raw_data) ELSE <<"colorqr">>
    ELSE <<data_type, "-qr">>

\* The base of _build_download_name, before the "-<timestamp>" suffix.
download_base(data_type, raw_data) ==
    LET host == drop_www(netloc(raw_data))
    IN  IF data_type \in {"url", "dynamic"}
        THEN IF host # <<>> THEN SubSeq(host, 1, find_first(host, {":"}) - 1)
             ELSE <<"colorqr">>
        ELSE IF data_type = "wifi" THEN <<"wifi-qr">>
        ELSE IF data_type = "vcard" THEN <<"vcard-qr">>
        ELSE <<data_type, "-qr">>

\* base-YYYYMMDD-HHMMSS; the time of the request is the element "<utcnow>".
build_download_name(data_type, raw_data) == download_base(data_type, raw_data) \o <<"-", "<utcnow>">>

-----------------------------------------------------------------------------
(* POST /generate_qr.                                                        *)

\* A file of a directory: its name and what was written to it.
file(name, ext, content) == [name |-> name, ext |-> ext, content |-> content]

\* open(path, "wb").write(...): the directory with the file (re)written.
written(dir, f) == {g \in dir : ~(g.name = f.name /\ g.ext = f.ext)} \cup {f}

has_file(dir, name, ext) == \E g \in dir : g.name = name /\ g.ext = ext

\* svg_bytes = None
NoSvg == [encoded |-> NoStr]

\* The target itself as the text of a dynamic code.
encoded_target(data_type, raw0, new_id) ==
    IF data_type \in {"url", "dynamic"} THEN normalize_url(raw0) ELSE raw0

\* Lines 1213-1230: the text generate_qr hands to the encoder.
encoded_text(data_type, raw0, new_id) ==
    IF data_type = "url" THEN normalize_url(raw0)
    ELSE IF data_type = "dynamic" THEN short_url(new_id)
    ELSE raw0

qr_error(req, code, error) == [op |-> "generate_qr", req |-> req, code |-> code, error |-> error]

generate_qr(data_type, data, fill_color, back_color, size, new_id) ==
    LET req    == [data_type |-> data_type, data |-> data, fill_color |-> fill_color,
                   back_color |-> back_color, size |-> size]
        raw0   == Strip(data)
        target == normalize_url(raw0)
        raw    == encoded_text(data_type, raw0, new_id)
        stored == IF data_type = "dynamic"
                  THEN links \cup {new_link(new_id, target, NoStr)}
                  ELSE links
        uid    == nextUid + 1
        jpg    == render_jpg(data_type, raw, fill_color, back_color, effective_size(size))
        svg    == gen_svg_bytes(raw, fill_color, back_color)
        dyn_jpg == written(dynfiles, file(new_id, "jpg", jpg))
    IN  /\ IF type_refused(data_type)
           THEN /\ resp' = qr_error(req, 403, IF data_type = "vcard"
                                              THEN "vCard available in Pro"
                                              ELSE "Dynamic QR available in Pro")
                /\ UNCHANGED <<session, links, files, dynfiles, nextUid>>
           ELSE IF raw0 = <<>>
           THEN /\ resp' = qr_error(req, 400, "Data is required")
                /\ UNCHANGED <<session, links, files, dynfiles, nextUid>>
           ELSE IF data_type = "dynamic" /\ target = <<>>
           THEN /\ resp' = qr_error(req, 400, "Target URL required")
                /\ UNCHANGED <<session, links, files, dynfiles, nextUid>>
           ELSE IF data_type = "dynamic" /\ new_id = NoId
           THEN /\ resp' = qr_error(req, 500, "Could not generate unique id")
                /\ UNCHANGED <<session, links, files, dynfiles, nextUid>>
           ELSE IF is_paid /\ ~check_contrast(fill_color, back_color)
           THEN /\ resp' = qr_error(req, 400, "Color contrast is too low")
                /\ links' = stored
                /\ UNCHANGED <<session, files, dynfiles, nextUid>>
           ELSE IF ~encoder_accepts(raw)
           THEN /\ resp' = qr_error(req, 500, "DataOverflowError")
                /\ links' = stored
                /\ UNCHANGED <<session, files, dynfiles, nextUid>>
           ELSE /\ nextUid < MaxRenders
                /\ nextUid' = uid
                /\ links' = stored
                /\ files' = IF svg_allowed
                            THEN files \cup {<<uid, "jpg">>, <<uid, "svg">>}
                            ELSE files \cup {<<uid, "jpg">>}
                /\ dynfiles' = IF data_type # "dynamic" THEN dynfiles
                               ELSE IF svg_allowed
                               THEN written(dyn_jpg, file(new_id, "svg", svg))
                               ELSE dyn_jpg
                /\ session' = [session EXCEPT !.download_name = build_download_name(data_type, raw)]
                /\ resp' = [op |-> "generate_qr", req |-> req, code |-> 200,
                            qr_code |-> jpg, id |-> uid, svg_available |-> svg_allowed,
                            svg_bytes |-> IF svg_allowed THEN svg ELSE NoSvg,
                            dynamic_id |-> IF data_type = "dynamic" THEN new_id ELSE NoId,
                            dynamic_short |-> IF data_type = "dynamic" THEN short_url(new_id)
                                              ELSE NoStr]
        /\ UNCHANGED <<clock, DEBUG_MODE, users, legacy, procs>>

-----------------------------------------------------------------------------
(* Downloads.                                                                *)

content_of(dir, name, ext) == (CHOOSE g \in dir : g.name = name /\ g.ext = ext).content

\* GET /dynamic/qr/<id>.jpg
dynamic_qr_image(id) ==
    /\ resp' = IF has_file(dynfiles, id, "jpg")
               THEN [op |-> "dynamic_qr_image", id |-> id, code |-> 200,
                     body |-> content_of(dynfiles, id, "jpg")]
               ELSE [op |-> "dynamic_qr_image", id |-> id, code |-> 404, error |-> "Not found"]
    /\ UNCHANGED <<clock, DEBUG_MODE, session, users, links, legacy, files, dynfiles, nextUid, procs>>

\* GET /download_jpg?id=...
download_jpg(id) ==
    /\ resp' = IF <<id, "jpg">> \in files
               THEN [op |-> "download_jpg", id |-> id, code |-> 200,
                     download_name |-> (IF session.download_name = NoStr THEN <<"qrcode">>
                                        ELSE session.download_name) \o <<".jpg">>]
               ELSE [op |-> "download_jpg", id |-> id, code |-> 404, error |-> "Not found"]
    /\ UNCHANGED <<clock, DEBUG_MODE, session, users, links, legacy, files, dynfiles, nextUid, procs>>

\* GET /download_svg?id=...
download_svg(id) ==
    /\ resp' = IF ~is_pro
               THEN [op |-> "download_svg", id |-> id, code |-> 403, error |-> "Pro required"]
               ELSE IF <<id, "svg">> \in files
               THEN [op |-> "download_svg", id |-> id, code |-> 200,
                     download_name |-> (IF session.download_name = NoStr THEN <<"qrcode">>
                                        ELSE session.download_name) \o <<".svg">>]
               ELSE [op |-> "download_svg", id |-> id, code |-> 404, error |-> "Not found"]
    /\ UNCHANGED <<clock, DEBUG_MODE, session, users, links, legacy, files, dynfiles, nextUid, procs>>

\* GET /dynamic/qr/<id>.svg
dynamic_qr_svg(id) ==
    /\ resp' = IF ~is_pro
               THEN [op |-> "dynamic_qr_svg", id |-> id, code |-> 403, error |-> "Pro required"]
               ELSE IF has_file(dynfiles, id, "svg")
               THEN [op |-> "dynamic_qr_svg", id |-> id, code |-> 200,
                     body |-> content_of(dynfiles, id, "svg")]
               ELSE [op |-> "dynamic_qr_svg", id |-> id, code |-> 404, error |-> "Not found"]
    /\ UNCHANGED <<clock, DEBUG_MODE, session, users, links, legacy, files, dynfiles, nextUid, procs>>

-----------------------------------------------------------------------------
(* POST /dynamic/create, one database access at a time: the requests of      *)
(* several workers interleave between the lookup of a candidate id and the   *)
(* commit of the new row.                                                    *)

Procs == 1..NumProcs

Idle == [pc |-> "idle"]
done(code, id, error) == [pc |-> "done", code |-> code, id |-> id, error |-> error]

\* A table whose id column is no key: the INSERT always goes through.
insert_unkeyed(row) == FALSE

\* db.session.add(link); db.session.commit(): id is the primary key of the
\* table (line 129), so the INSERT of a second row under the id fails.
insert_fails(row) == rows_of(row.id) # {}

\* The request up to the loop of _create_dynamic_link_in_db.
create_begin(p, target_in, label_in) ==
    LET target == normalize_url(target_in)
        label  == clean_label(label_in)
    IN  /\ procs[p].pc = "idle"
        /\ procs' = [procs EXCEPT ![p] =
                IF ~is_pro THEN done(403, NoId, "Pro required")
                ELSE IF target = <<>> THEN done(400, NoId, "Target URL required")
                ELSE [pc |-> "loop", tries |-> 0, row |-> new_link(NoId, target, label)]]
        /\ UNCHANGED <<clock, DEBUG_MODE, session, users, links, legacy, files, dynfiles, nextUid, resp>>

\* A loop that draws candidates until one is free.
create_try_until_free(p, candidate) ==
    /\ procs[p].pc = "loop"
    /\ procs' = [procs EXCEPT ![p] =
            IF rows_of(candidate) = {}
            THEN [pc |-> "commit", row |-> [procs[p].row EXCEPT !.id = candidate]]
            ELSE [procs[p] EXCEPT !.tries = @ + 1]]
    /\ UNCHANGED <<clock, DEBUG_MODE, session, users, links, legacy, files, dynfiles, nextUid, resp>>

\* One iteration of the loop: a candidate from uuid4, looked up in the table.
create_try(p, candidate) ==
    /\ procs[p].pc = "loop"
    /\ procs' = [procs EXCEPT ![p] =
            IF rows_of(candidate) = {}
            THEN [pc |-> "commit", row |-> [procs[p].row EXCEPT !.id = candidate]]
            ELSE IF procs[p].tries + 1 = MaxTries
            THEN done(500, NoId, "Could not generate unique id")
            ELSE [procs[p] EXCEPT !.tries = @ + 1]]
    /\ UNCHANGED <<clock, DEBUG_MODE, session, users, links, legacy, files, dynfiles, nextUid, resp>>

\* The INSERT and commit; an IntegrityError is not caught and ends the request.
create_commit(p) ==
    /\ procs[p].pc = "commit"
    /\ IF insert_fails(procs[p].row)
       THEN /\ procs' = [procs EXCEPT ![p] = done(500, procs[p].row.id, "IntegrityError")]
            /\ UNCHANGED links
       ELSE /\ links' = links \cup {[procs[p].row EXCEPT !.created_at = clock, !.updated_at = clock]}
            /\ procs' = [procs EXCEPT ![p] = done(200, procs[p].row.id, "ok")]
    /\ UNCHANGED <<clock, DEBUG_MODE, session, users, legacy, files, dynfiles, nextUid, resp>>

\* The response reaches the client; the worker takes the next request.
create_return(p) ==
    /\ procs[p].pc = "done"
    /\ resp' = [op |-> "create", code |-> procs[p].code, id |-> procs[p].id,
                error |-> procs[p].error]
    /\ procs' = [procs EXCEPT ![p] = Idle]
    /\ UNCHANGED <<clock, DEBUG_MODE, session, users, links, legacy, files, dynfiles, nextUid>>

-----------------------------------------------------------------------------
(* Concurrent /dynamic/update and /dynamic/delete requests: each reads the   *)
(* row in its own session, and writes at its commit.                         *)

\* A request that has been answered.
settled(op, id, target, label, code, error) ==
    [pc |-> "settled", op |-> op, id |-> id, target |-> target, label |-> label,
     code |-> code, error |-> error]

\* dynamic_update up to the assignments: the checks, and the row as read.
update_begin(p, id, target_in, label_in) ==
    LET email  == LowerStr(current_user)
        target == normalize_url(target_in)
        label  == clean_label(label_in)
        refuse(code, error) == settled("update", id, target, label, code, error)
    IN  /\ procs[p].pc = "idle"
        /\ procs' = [procs EXCEPT ![p] =
                IF ~is_pro THEN refuse(403, "Pro required")
                ELSE IF current_user = NoUser THEN refuse(401, "Auth required")
                ELSE IF rows_of(id) = {} THEN refuse(404, "Not found")
                ELSE IF not_allowed(get_link(id), email) THEN refuse(403, "Not allowed")
                ELSE IF target = <<>> THEN refuse(400, "Target URL required")
                ELSE [pc |-> "update", id |-> id, snap |-> get_link(id),
                      target |-> target, label |-> label]]
        /\ UNCHANGED <<clock, DEBUG_MODE, session, users, links, legacy, files, dynfiles, nextUid, resp>>

\* db.session.commit() of an update: the flush sends UPDATE ... WHERE id = ?
\* with the columns whose value differs from the one read, and nothing if
\* none does; an UPDATE that matches no row raises StaleDataError.
update_commit(p) ==
    LET r  == procs[p]
        tc == r.target # r.snap.target_url
        lc == r.label # r.snap.label
        ok == settled("update", r.id, r.target, r.label, 200, "ok")
    IN  /\ r.pc = "update"
        /\ IF ~tc /\ ~lc
           THEN /\ procs' = [procs EXCEPT ![p] = ok]
                /\ UNCHANGED links
           ELSE IF rows_of(r.id) = {}
           THEN /\ procs' = [procs EXCEPT ![p] =
                        settled("update", r.id, r.target, r.label, 500, "StaleDataError")]
                /\ UNCHANGED links
           ELSE /\ links' = (links \ {get_link(r.id)}) \cup
                            {[get_link(r.id) EXCEPT
                                !.target_url = IF tc THEN r.target ELSE @,
                                !.label = IF lc THEN r.label ELSE @,
                                !.updated_at = clock]}
                /\ procs' = [procs EXCEPT ![p] = ok]
        /\ UNCHANGED <<clock, DEBUG_MODE, session, users, legacy, files, dynfiles, nextUid, resp>>

\* dynamic_delete up to db.session.delete(link).
delete_begin(p, id) ==
    LET email == LowerStr(current_user)
        refuse(code, error) == settled("delete", id, NoStr, NoStr, code, error)
    IN  /\ procs[p].pc = "idle"
        /\ procs' = [procs EXCEPT ![p] =
                IF ~is_pro THEN refuse(403, "Pro required")
                ELSE IF current_user = NoUser THEN refuse(401, "Auth required")
                ELSE IF rows_of(id) = {} THEN refuse(404, "Not found")
                ELSE IF not_allowed(get_link(id), email) THEN refuse(403, "Not allowed")
                ELSE [pc |-> "delete", id |-> id, snap |-> get_link(id)]]
        /\ UNCHANGED <<clock, DEBUG_MODE, session, users, links, legacy, files, dynfiles, nextUid, resp>>

\* db.session.commit() of a delete: DELETE ... WHERE id = ?; a row that is
\* gone already is a warning, not an error.
delete_commit(p) ==
    /\ procs[p].pc = "delete"
    /\ links' = links \ rows_of(procs[p].id)
    /\ procs' = [procs EXCEPT ![p] = settled("delete", procs[p].id, NoStr, NoStr, 200, "ok")]
    /\ UNCHANGED <<clock, DEBUG_MODE, session, users, legacy, files, dynfiles, nextUid, resp>>

-----------------------------------------------------------------------------
(* Specifications.                                                           *)

\* The link store under create, update, delete and redirect requests of a
\* client that logs in and out as the administrator, a subscriber and a user
\* without subscription, with and without the debug routes.
Next ==
    \/ \E e \in LoginEmails : auth_callback(e)
    \/ logout
    \/ unlock_pro
    \/ lock_pro
    \/ payment_success("subscription", "paid", Bob, "active", "cus_1")
    \/ \E t \in CreateUrls, i \in generated_ids : dynamic_create(t, <<>>, i)
    \/ \E i \in Ids, t \in UpdateUrls : dynamic_update(i, t, <<"L", " ">>)
    \/ \E i \in Ids : dynamic_delete(i)
    \/ \E i \in Ids : dynamic_redirect(i)

InitStore == Init /\ legacy = EmptyLegacy

Spec == InitStore /\ [][Next]_vars

\* What the render requests of the model carry.
DataInputs == { <<" ">>, <<" ", "a", ".", "c", "o">> }
ColorPairs == { <<Black, White>>, <<Gray7, Gray8>> }
RenderSizes == {"sm", "lg"}

\* The render pipeline for an anonymous client of a deployment with the debug
\* routes, which switch the session between the three tiers.
NextRender ==
    \/ unlock_pro
    \/ lock_pro
    \/ unlock_one_time
    \/ lock_one_time
    \/ \E u \in 1..RenderRuns : download_svg(u)
    \/ \E i \in Ids : dynamic_qr_svg(i)
    \/ \E dt \in DataTypes \ {"dynamic"}, d \in DataInputs, cp \in ColorPairs, sz \in RenderSizes :
            nextUid < RenderRuns /\ generate_qr(dt, d, cp[1], cp[2], sz, NoId)
    \/ \E i \in generated_ids, d \in DataInputs, cp \in ColorPairs :
            nextUid < RenderRuns /\ generate_qr("dynamic", d, cp[1], cp[2], "lg", i)

InitRender == Init /\ DEBUG_MODE = TRUE /\ legacy = EmptyLegacy

SpecRender == InitRender /\ [][NextRender]_vars

\* Concurrent /dynamic/create requests of the administrator's session.
CreateTargets == CreateUrls \cup {<<"b">>}

NextCreate ==
    \/ auth_callback(Root)
    \/ \E p \in Procs, t \in CreateTargets : create_begin(p, t, <<>>)
    \/ \E p \in Procs, c \in Ids : create_try(p, c)
    \/ \E p \in Procs : create_commit(p)
    \/ \E p \in Procs : create_return(p)

InitCreate == Init /\ DEBUG_MODE = FALSE /\ legacy = EmptyLegacy

SpecCreate == InitCreate /\ [][NextCreate]_vars

\* The link store of the administrator's session while time passes.
NextStamp ==
    \/ auth_callback(Root)
    \/ tick
    \/ \E i \in generated_ids : dynamic_create(<<" ", "a", ".", "c", "o">>, <<>>, i)
    \/ \E i \in Ids, t \in UpdateUrls \cup CreateUrls, l \in {<<>>, <<"L", " ">>} :
            dynamic_update(i, t, l)
    \/ \E i \in Ids : dynamic_delete(i)

InitStamp == Init /\ DEBUG_MODE = FALSE /\ legacy = EmptyLegacy

SpecStamp == InitStamp /\ [][NextStamp]_vars

\* Concurrent updates and deletes by the administrator, who owns the links
\* created before them.
SerialTargets == { <<" ", "a", ".", "c", "o">>, <<"H", "T", "T", "P", ":", "/", "/", "b">> }
SerialLabels  == { <<>>, <<"L", " ">> }

NextSerial ==
    \/ auth_callback(Root)
    \/ \E i \in generated_ids :
            /\ \A p \in Procs : procs[p].pc = "idle"
            /\ dynamic_create(<<" ", "a", ".", "c", "o">>, <<>>, i)
    \/ \E p \in Procs, i \in Ids, t \in SerialTargets, l \in SerialLabels : update_begin(p, i, t, l)
    \/ \E p \in Procs : update_commit(p)
    \/ \E p \in Procs, i \in Ids : delete_begin(p, i)
    \/ \E p \in Procs : delete_commit(p)

InitSerial == Init /\ DEBUG_MODE = FALSE /\ legacy = EmptyLegacy

SpecSerial == InitSerial /\ [][NextSerial]_vars

\* Logins, checkouts and Stripe events for two customers, on a deployment
\* without the debug routes.
EventTypes == {"customer.subscription.created", "customer.subscription.updated",
               "customer.subscription.deleted", "invoice.paid"}
SubStatuses == {"active", "trialing", "past_due"}
Customers == {"cus_1", "cus_2"}
customer_of(email) == IF email = Bob THEN "cus_1" ELSE "cus_2"

NextBilling ==
    \/ \E e \in LoginEmails : auth_callback(e)
    \/ logout
    \/ \E e \in {Alice, Bob}, st \in {"active", "past_due"} :
            payment_success("subscription", "paid", e, st, customer_of(e))
    \/ \E t \in EventTypes, c \in Customers, st \in SubStatuses, sg \in BOOLEAN :
            stripe_webhook(t, c, st, sg)

InitBilling == Init /\ DEBUG_MODE = FALSE /\ legacy = EmptyLegacy

SpecBilling == InitBilling /\ [][NextBilling]_vars

\* Redirects against the link store and every legacy file of the model.
NextResolve ==
    \/ auth_callback(Root)
    \/ \E t \in CreateUrls, i \in generated_ids : dynamic_create(t, <<>>, i)
    \/ \E i \in Ids, t \in UpdateUrls : dynamic_update(i, t, <<"L", " ">>)
    \/ \E i \in Ids : dynamic_delete(i)
    \/ \E i \in UrlIds : dynamic_redirect(i)

InitResolve == Init /\ DEBUG_MODE = FALSE

SpecResolve == InitResolve /\ [][NextResolve]_vars

\* Dynamic codes of the administrator: rendered, resolved, changed, deleted,
\* and their files fetched.
NextArtifacts ==
    \/ auth_callback(Root)
    \/ logout
    \/ \E i \in generated_ids, d \in DataInputs, sz \in {"sm", "lg"} :
            generate_qr("dynamic", d, Black, White, sz, i)
    \/ \E d \in DataInputs : generate_qr("url", d, Black, White, "md", NoId)
    \/ \E t \in CreateUrls, i \in generated_ids : dynamic_create(t, <<>>, i)
    \/ \E i \in Ids, t \in UpdateUrls : dynamic_update(i, t, <<>>)
    \/ \E i \in Ids : dynamic_delete(i)
    \/ \E i \in Ids : dynamic_redirect(i)
    \/ \E i \in Ids : dynamic_qr_image(i)
    \/ \E u \in 1..MaxRenders : download_jpg(u)
    \/ \E u \in 1..MaxRenders : download_svg(u)

InitArtifacts == Init /\ DEBUG_MODE = FALSE /\ legacy = EmptyLegacy

SpecArtifacts == InitArtifacts /\ [][NextArtifacts]_vars

\* Payloads at the edges of the encoder: blank, short, and too long for any symbol.
EdgeInputs == { <<" ">>, <<" ", "a", ".", "c", "o">>, <<"x", LongRun>> }

\* Renders of the open data types in the default colours, at every tier.
NextEncode ==
    \/ unlock_pro
    \/ lock_pro
    \/ unlock_one_time
    \/ lock_one_time
    \/ \E dt \in {"url", "wifi", "text"}, d \in EdgeInputs, sz \in RenderSizes :
            generate_qr(dt, d, Black, White, sz, NoId)
    \/ \E u \in 1..MaxRenders : download_jpg(u)
    \/ \E u \in 1..MaxRenders : download_svg(u)

InitEncode == Init /\ DEBUG_MODE = TRUE /\ legacy = EmptyLegacy

SpecEncode == InitEncode /\ [][NextEncode]_vars

\* The state of Init around a request that is at hand.
InitWith(request) ==
    /\ DEBUG_MODE = FALSE
    /\ session = EmptySession
    /\ users = [e \in DbEmails |-> NoRow]
    /\ links = {}
    /\ legacy = EmptyLegacy
    /\ files = {}
    /\ dynfiles = {}
    /\ nextUid = 0
    /\ procs = [p \in 1..NumProcs |-> [pc |-> "idle"]]
    /\ clock = 0
    /\ resp = request

\* Colour strings of every length up to the bound, with and without "#":
\* digits in both cases, and a letter that is no hex digit.
HexInputs == {p \o b : p \in {<<>>, <<"#">>}, b \in SeqsUpTo({"1", "A", "g"}, MaxHexLen)}

NextHex == hex_to_rgb_call

InitHex == \E h \in HexInputs : InitWith([op |-> "hex_arg", h |-> h])

SpecHex == InitHex /\ [][NextHex]_vars

\* Colours whose three components are drawn from five byte values.
ByteInputs == { <<"0", "0">>, <<"7", "7">>, <<"8", "8">>, <<"A", "A">>, <<"f", "f">> }
ColourInputs == {<<"#">> \o r \o g \o b : r \in ByteInputs, g \in ByteInputs, b \in ByteInputs}

NextContrast == check_contrast_api

InitContrast ==
    \E f \in ColourInputs, b \in ColourInputs :
        InitWith([op |-> "contrast_arg", fill_color |-> f, back_color |-> b])

SpecContrast == InitContrast /\ [][NextContrast]_vars

\* The framer on the square images of the three sizes, over the background
\* colours of a request and the fonts of a deployment.
FrameSides == {px_of(k) : k \in {"sm", "md", "lg"}}

NextFrame == add_watermark_border_call

InitFrame ==
    \E px \in FrameSides, b \in ColourInputs, f \in Fonts :
        InitWith([op |-> "frame_arg", W |-> px, H |-> px, back_hex |-> b, font |-> f])

SpecFrame == InitFrame /\ [][NextFrame]_vars

\* "example.com", and the same host with a www. prefix, a port and a path.
ExampleCom == <<"e", "x", "a", "m", "p", "l", "e", ".", "c", "o", "m">>
ExampleInputs ==
    { ExampleCom,
      <<"w", "w", "w", ".">> \o ExampleCom,
      ExampleCom \o <<":", "8", "0">>,
      <<"w", "w", "w", ".">> \o ExampleCom \o <<":", "8", "0", "/", "a">> }

\* url requests for example.com with the default colours, and the downloads
\* of what they produced.
NextExample ==
    \/ unlock_pro
    \/ lock_pro
    \/ unlock_one_time
    \/ lock_one_time
    \/ \E d \in ExampleInputs, sz \in {"md", "lg"} : generate_qr("url", d, Black, White, sz, NoId)
    \/ \E u \in 1..MaxRenders : download_jpg(u)
    \/ \E u \in 1..MaxRenders : download_svg(u)

InitExample == Init /\ DEBUG_MODE = TRUE /\ legacy = EmptyLegacy

SpecExample == InitExample /\ [][NextExample]_vars

\* The same few requests, sent again and again by a free or a Pro client.
NextRepeat ==
    \/ unlock_pro
    \/ lock_pro
    \/ \E dt \in {"url", "wifi"}, sz \in RenderSizes :
            generate_qr(dt, <<"a", ".", "c", "o">>, Black, White, sz, NoId)
    \/ \E i \in generated_ids :
            generate_qr("dynamic", <<"a", ".", "c", "o">>, Black, White, "lg", i)

InitRepeat == Init /\ DEBUG_MODE = TRUE /\ legacy = EmptyLegacy

SpecRepeat == InitRepeat /\ [][NextRepeat]_vars

-----------------------------------------------------------------------------
(* Ownership of dynamic links.                                               *)

\* The caller is the owner the link records (a link without owner has none).
is_owner(link) == link.owner_email # NoStr /\ link.owner_email = caller_email
is_admin == caller_email \in PREMIUM_EMAILS

\* The step answers an update or a delete of the stored link.
Mutates(link) ==
    /\ resp'.op \in {"update", "delete"}
    /\ resp'.id = link.id

\* The step refuses the caller and leaves the store as it was.
Refused ==
    /\ resp'.code \in {401, 403}
    /\ links' = links

\* C1: an update or a delete of a stored link by a caller who is neither the
\* link's owner nor an administrator is refused with an authorization error
\* and leaves the record unchanged.  The formula asks the least of it: the
\* store is as it was.
C1_StrangerRefused ==
    [][\A link \in links :
          (Mutates(link) /\ ~is_owner(link) /\ ~is_admin) => links' = links]_vars

\* C2: a link whose owner is unset passes no ownership check: only an
\* administrator can update or delete it.  No other caller's request is
\* answered ok.
C2_UnownedAdminOnly ==
    [][\A link \in links :
          (Mutates(link) /\ link.owner_email = NoStr /\ ~is_admin) => resp'.code # 200]_vars

\* What the code does keep: a link that records an owner is changed by its
\* owner or an administrator only.
OwnedLinkGuarded ==
    [][\A link \in links :
          (Mutates(link) /\ link.owner_email # NoStr /\ ~is_owner(link) /\ ~is_admin)
              => Refused]_vars

-----------------------------------------------------------------------------
(* Concurrent creation.                                                      *)

Succeeded(p) == procs[p].pc = "done" /\ procs[p].code = 200

\* C3: under any interleaving of concurrent create calls no two stored links
\* share an id, and two create calls that both return successfully return
\* different ids.
C3_NoSharedId ==
    /\ \A r1, r2 \in links : r1.id = r2.id => r1 = r2
    /\ \A p, q \in Procs : (p # q /\ Succeeded(p) /\ Succeeded(q)) => procs[p].id # procs[q].id
    /\ \A p \in Procs : Succeeded(p) => rows_of(procs[p].id) # {}

\* Two requests settled on the same free id; one committed it, the other's
\* INSERT was turned down by the key.
C3_RaceLost ==
    \E p, q \in Procs :
        /\ Succeeded(p)
        /\ procs[q].pc = "done"
        /\ procs[q].error = "IntegrityError"
        /\ procs[q].id = procs[p].id

-----------------------------------------------------------------------------
(* Rendering.                                                                *)

\* The caller's tier: subscriber (Pro), one-time, or free.
CallerTier == IF is_pro THEN "subscriber" ELSE IF is_one_time THEN "one-time" ELSE "free"

\* The last request was a render, and it produced an image.
Asked == resp.op = "generate_qr"
Rendered == Asked /\ resp.code = 200

\* The side of the rendered symbol, without the frame around it.
SymbolSide == resp.qr_code.size - 2 * resp.qr_code.margin

\* C4: a successful render with data type dynamic creates exactly one link,
\* whose target is the normalized payload, and the text encoded in the raster
\* and the vector image is the short redirect URL of that link, never the
\* target itself.
C4_DynamicEncodesShortUrl ==
    [][(resp'.op = "generate_qr" /\ resp'.req.data_type = "dynamic" /\ resp'.code = 200)
          => \E l \in links' \ links :
                /\ links' = links \cup {l}
                /\ rows_of(l.id) = {}
                /\ l.target_url = normalize_url(resp'.req.data)
                /\ resp'.dynamic_id = l.id
                /\ resp'.qr_code.encoded = SiteRoot \o <<"/", "r", "/", l.id>>
                /\ resp'.qr_code.encoded # l.target_url
                /\ resp'.svg_available
                /\ resp'.svg_bytes.encoded = resp'.qr_code.encoded]_vars

C4_Witness ==
    /\ Rendered
    /\ resp.req.data_type = "dynamic"
    /\ \E l \in links : l.id = resp.dynamic_id /\ resp.qr_code.encoded = short_url(l.id)

\* C7 as stated: a render request of a free caller that asks for the large
\* size ends in an entitlement error and produces no artifact.  The formula
\* asks the least of it: no image comes back.
C7_LargeRefused ==
    (Asked /\ CallerTier = "free" /\ resp.req.size = "lg") => resp.code # 200

\* C7, amended: a free caller never obtains a large or a vector artifact, but
\* a request for the large size is not refused: it is rendered at the medium
\* size (512 px, then framed), without a vector image; a vector download by a
\* free caller is answered 403.
C7_FreeGetsMedium ==
    /\ (Rendered /\ CallerTier = "free") =>
            /\ SymbolSide = (IF resp.req.size = "sm" THEN 256 ELSE 512)
            /\ ~resp.svg_available
            /\ resp.svg_bytes = NoSvg
            /\ <<resp.id, "svg">> \notin files
    /\ (/\ Asked
        /\ CallerTier = "free"
        /\ resp.req.size = "lg"
        /\ resp.req.data_type \in {"url", "wifi", "text"}
        /\ Strip(resp.req.data) # <<>>
        /\ encoder_accepts(encoded_text(resp.req.data_type, Strip(resp.req.data), NoId))) =>
            resp.code = 200
    /\ (resp.op = "download_svg" /\ CallerTier = "free") => resp.code = 403

C7_Witness ==
    /\ Rendered
    /\ CallerTier = "free"
    /\ resp.req.size = "lg"
    /\ SymbolSide = 512

\* C8 as stated: the data types vcard and dynamic are accepted for one-time
\* and subscriber callers.
C8_PaidAccepted ==
    (Asked /\ resp.req.data_type \in {"vcard", "dynamic"} /\ CallerTier # "free")
        => resp.code # 403

\* C8, amended: the data types vcard and dynamic are accepted only for
\* subscriber (Pro) callers; for free and for one-time callers the request is
\* answered 403 and leaves no artifact and no link.
C8_ProOnly ==
    [][(resp'.op = "generate_qr" /\ resp'.req.data_type \in {"vcard", "dynamic"})
          => IF CallerTier = "subscriber"
             THEN resp'.code # 403
             ELSE /\ resp'.code = 403
                  /\ links' = links
                  /\ files' = files
                  /\ dynfiles' = dynfiles]_vars

C8_Witness ==
    /\ Asked
    /\ resp.req.data_type \in {"vcard", "dynamic"}
    /\ CallerTier = "one-time"
    /\ resp.code = 403

\* C9 as stated: for a free caller no badge is drawn.
C9_NoBadgeForFree ==
    (Rendered /\ CallerTier = "free") => resp.qr_code.badge = "none"

\* C9, amended: a badge is drawn exactly when the data type is wifi, at every
\* tier, free included, or the data type is vcard and the caller is a
\* subscriber; for the other data types no badge is drawn at any tier.
C9_BadgeByType ==
    Rendered =>
        (resp.qr_code.badge # "none" <=>
            \/ resp.req.data_type = "wifi"
            \/ resp.req.data_type = "vcard" /\ CallerTier = "subscriber")

C9_Witness ==
    /\ Rendered
    /\ CallerTier = "free"
    /\ resp.req.data_type = "wifi"
    /\ resp.qr_code.badge = "wifi"

\* C10: the watermark frame is applied if and only if the caller's tier is
\* free: every image rendered for a free caller carries it, no image rendered
\* for a one-time or subscriber caller does.
C10_WatermarkIffFree ==
    Rendered =>
        /\ CallerTier = "free" =>
                /\ resp.qr_code.watermark = "Created by ColorQR.app"
                /\ resp.qr_code.margin >= 24
        /\ CallerTier # "free" =>
                /\ resp.qr_code.watermark = "none"
                /\ resp.qr_code.margin = 0

C10_Witness ==
    /\ Rendered
    /\ CallerTier = "free"
    /\ resp.qr_code.watermark = "Created by ColorQR.app"
    /\ resp.qr_code.size = 512 + 2 * 25
    /\ <<resp.id, "jpg">> \in files

-----------------------------------------------------------------------------
(* Resolution and artifacts of dynamic links.                                *)

\* The legacy file is a readable object with a url for the id.
LegacyHas(id) ==
    /\ legacy.kind = "dict"
    /\ id \in DOMAIN legacy.data
    /\ "url" \in legacy.data[id].keys

\* C5: resolving an id never errors: it redirects to the stored target if the
\* id is in the table; else to the legacy file's url for the id, if the file
\* is a readable object that has one; else to the default landing page.
C5_ResolveOrder ==
    resp.op = "redirect" =>
        /\ resp.code = 302
        /\ rows_of(resp.id) # {} => \E l \in links : l.id = resp.id /\ resp.location = l.target_url
        /\ (rows_of(resp.id) = {} /\ LegacyHas(resp.id)) => resp.location = legacy.data[resp.id].url
        /\ (rows_of(resp.id) = {} /\ ~LegacyHas(resp.id)) => resp.location = DefaultLanding

C5_Witness ==
    /\ resp.op = "redirect"
    /\ rows_of(resp.id) # {}
    /\ LegacyHas(resp.id)
    /\ resp.location # legacy.data[resp.id].url

\* C6: deleting a link removes its row only: no operation removes a file, a
\* delete leaves every file as it was, and the image kept under the id is
\* served as before.
C6_ArtifactsOutliveLinks ==
    [][/\ files \subseteq files'
       /\ \A f \in dynfiles : has_file(dynfiles', f.name, f.ext)
       /\ resp'.op = "delete" => (files' = files /\ dynfiles' = dynfiles)
       /\ (resp'.op = "dynamic_qr_image" /\ has_file(dynfiles, resp'.id, "jpg")) =>
              /\ resp'.code = 200
              /\ \E f \in dynfiles : f.name = resp'.id /\ f.ext = "jpg" /\ resp'.body = f.content]_vars

C6_Witness ==
    /\ resp.op = "dynamic_qr_image"
    /\ resp.code = 200
    /\ rows_of(resp.id) = {}

-----------------------------------------------------------------------------
(* Vector export.                                                            *)

VectorDownload == resp.op \in {"download_svg", "dynamic_qr_svg"}

\* The vector file the last download asked for is on disk.
VectorOnDisk ==
    \/ resp.op = "download_svg" /\ <<resp.id, "svg">> \in files
    \/ resp.op = "dynamic_qr_svg" /\ has_file(dynfiles, resp.id, "svg")

\* C11: a render writes and reports a vector image only for a subscriber;
\* free and one-time callers get none; a vector download by a caller who is
\* no subscriber is answered 403 and no file, also when the file exists.
C11_VectorForSubscribers ==
    /\ Rendered =>
          /\ resp.svg_available => CallerTier = "subscriber"
          /\ resp.svg_available <=> <<resp.id, "svg">> \in files
          /\ resp.svg_available <=> resp.svg_bytes # NoSvg
    /\ (VectorDownload /\ CallerTier # "subscriber") =>
          /\ resp.code = 403
          /\ "body" \notin DOMAIN resp

C11_Witness ==
    /\ VectorDownload
    /\ CallerTier = "one-time"
    /\ VectorOnDisk
    /\ resp.code = 403

-----------------------------------------------------------------------------
(* Contrast of a render request.                                             *)

\* The contrast ratio of the two colours is below 4.5, from their luminances
\* (units of 1e-5): (Lmax + 0.05) / (Lmin + 0.05) < 9 / 2.
RatioBelowMin(fill, back) ==
    LET a  == get_luminance(hex_to_rgb(fill))
        b  == get_luminance(hex_to_rgb(back))
        hi == IF a >= b THEN a ELSE b
        lo == IF a >= b THEN b ELSE a
    IN  2 * (hi + 5000) < 9 * (lo + 5000)

ContrastError == "Color contrast is too low"

\* C12: for a caller entitled to custom colours (one-time or subscriber) a
\* render request whose contrast ratio is below 4.5 fails as a whole: nothing
\* is rendered, no file is written, and a request that got as far as the
\* colours is answered 400 with the contrast error; a request whose ratio is
\* at least 4.5 is never answered with the contrast error.
C12_LowContrastFails ==
    [][(resp'.op = "generate_qr" /\ CallerTier # "free") =>
          LET req == resp'.req
          IN  IF RatioBelowMin(req.fill_color, req.back_color)
              THEN /\ resp'.code # 200
                   /\ "qr_code" \notin DOMAIN resp'
                   /\ files' = files
                   /\ dynfiles' = dynfiles
                   /\ (resp'.code = 400 /\ Strip(req.data) # <<>>) => resp'.error = ContrastError
                   /\ (/\ req.data_type \in {"url", "wifi", "text"}
                       /\ Strip(req.data) # <<>>) => (resp'.code = 400 /\ resp'.error = ContrastError)
              ELSE resp'.code # 200 => resp'.error # ContrastError]_vars

C12_Witness ==
    /\ Asked
    /\ CallerTier = "one-time"
    /\ resp.req.fill_color = Gray7
    /\ resp.req.back_color = Gray8
    /\ resp.code = 400
    /\ resp.error = ContrastError

-----------------------------------------------------------------------------
(* Targets of stored links.                                                  *)

HasScheme(u) == StartsWith(LowerStr(u), HTTP) \/ StartsWith(LowerStr(u), HTTPS)

\* The normalized form of a request's target: stripped, and with https://
\* in front when it carries no scheme.
NormalForm(t) == IF HasScheme(Strip(t)) THEN Strip(t) ELSE HTTPS \o Strip(t)

Blank(t) == Strip(t) = <<>>

\* C13: after every create and update each stored link's target is non-empty
\* and normalized (it starts with http:// or https://, https:// having been
\* put in front of an input without scheme); a create or an update with a
\* blank target is rejected and leaves the store as it was.
C13_TargetsNormalized ==
    [][/\ \A l \in links' : l.target_url # <<>> /\ Strip(l.target_url) = l.target_url
                            /\ HasScheme(l.target_url)
       /\ \A t \in CreateUrls, i \in Ids :
             (resp'.op = "create" /\ dynamic_create(t, <<>>, i)) =>
                 /\ Blank(t) => (resp'.code \in {400, 403} /\ links' = links)
                 /\ resp'.code = 200 =>
                        \E l \in links' : l.id = i /\ l.target_url = NormalForm(t)
       /\ \A t \in UpdateUrls, i \in Ids :
             (resp'.op = "update" /\ dynamic_update(i, t, <<"L", " ">>)) =>
                 /\ Blank(t) => (resp'.code \in {400, 401, 403, 404} /\ links' = links)
                 /\ resp'.code = 200 =>
                        \E l \in links' : l.id = i /\ l.target_url = NormalForm(t)]_vars

\* A link created from an input without scheme, and a blank update refused
\* on it.
C13_Witness ==
    /\ resp.op = "update"
    /\ resp.code = 400
    /\ \E l \in links : l.id = resp.id /\ l.target_url = HTTPS \o <<"a", ".", "c", "o">>

-----------------------------------------------------------------------------
(* Payloads the pipeline cannot encode.                                      *)

\* The text a request of an open data type hands to the encoder.
TextOf(req) == IF req.data_type = "url" THEN NormalForm(req.data) ELSE Strip(req.data)

\* The text is longer than the largest symbol holds.
TooLong(req) == payload_len(TextOf(req)) > QrCapacityH

\* The step wrote no file, and the response carries no image.
NothingPersisted ==
    /\ resp'.code # 200
    /\ "qr_code" \notin DOMAIN resp'
    /\ files' = files
    /\ dynfiles' = dynfiles

-----------------------------------------------------------------------------
(* Parsing of colour strings.                                                *)

\* The string without the one "#" it may start with.
HexBody(h) == IF h # <<>> /\ Head(h) = "#" THEN Tail(h) ELSE h

AllHex(b) == \A k \in 1..Len(b) : IsHexDigit(b[k])

\* Six hex digits, in either case, with or without the leading "#".
ValidHex(h) == Len(HexBody(h)) = 6 /\ AllHex(HexBody(h))

\* The three-digit shorthand, which the parser expands.
ShortHex(h) == Len(HexBody(h)) = 3 /\ AllHex(HexBody(h))

\* The value of two hex digits.
Byte(b, k) == 16 * HexVal(b[k]) + HexVal(b[k + 1])

\* C15: the parser is total; a valid six-digit string gives the triple its
\* digits denote, and every malformed string (wrong length, a character that
\* is no hex digit, empty) gives the default, black for a foreground.
C15_ParseHexTotal ==
    resp.op = "hex_to_rgb" =>
        /\ ValidHex(resp.h) =>
              resp.rgb = <<Byte(HexBody(resp.h), 1), Byte(HexBody(resp.h), 3), Byte(HexBody(resp.h), 5)>>
        /\ (~ValidHex(resp.h) /\ ~ShortHex(resp.h)) => resp.rgb = <<0, 0, 0>>

\* What the parser does guarantee: the triple of a valid string, the expanded
\* triple of the shorthand, and black for a string with fewer than five
\* characters after the "#"s or with a character that is no hex digit among
\* the first six.
HexValidExact ==
    resp.op = "hex_to_rgb" =>
        /\ ValidHex(resp.h) =>
              resp.rgb = <<Byte(HexBody(resp.h), 1), Byte(HexBody(resp.h), 3), Byte(HexBody(resp.h), 5)>>
        /\ ShortHex(resp.h) =>
              resp.rgb = <<17 * HexVal(HexBody(resp.h)[1]), 17 * HexVal(HexBody(resp.h)[2]),
                           17 * HexVal(HexBody(resp.h)[3])>>

-----------------------------------------------------------------------------
(* The contrast check.                                                       *)

Checked == resp.op = "check_contrast"

\* C16: with the minimum ratio 4.5 the check accepts black on white and
\* rejects #777777 on #888888; a colour against itself has ratio 1.0 and is
\* rejected, whatever the colour; the answer does not depend on the order of
\* the two colours.
C16_ContrastCheck ==
    Checked =>
        /\ (resp.fill_color = Black /\ resp.back_color = White) => resp.safe
        /\ (resp.fill_color = Gray7 /\ resp.back_color = Gray8) => ~resp.safe
        /\ resp.fill_color = resp.back_color =>
              /\ get_luminance(hex_to_rgb(resp.fill_color)) + 5000
                    = get_luminance(hex_to_rgb(resp.back_color)) + 5000
              /\ ~resp.safe
        /\ resp.safe = ~RatioBelowMin(resp.back_color, resp.fill_color)

C16_Witness ==
    /\ Checked
    /\ resp.fill_color = White
    /\ resp.back_color = Black
    /\ resp.safe

-----------------------------------------------------------------------------
(* Determinism of the raster image.                                          *)

\* The step renders again the request just rendered, for the same caller.
RenderedAgain ==
    /\ Rendered
    /\ resp'.op = "generate_qr"
    /\ resp'.code = 200
    /\ resp'.req = resp.req
    /\ CallerTier' = CallerTier

-----------------------------------------------------------------------------
(* A url request for example.com, end to end.                                *)

\* A url request of the example set with the default colours was rendered
\* for a free caller.
ExampleRendered ==
    /\ Rendered
    /\ CallerTier = "free"
    /\ resp.req.data_type = "url"
    /\ resp.req.data \in ExampleInputs
    /\ resp.req.fill_color = Black
    /\ resp.req.back_color = White

\* C18: a url request with payload "example.com" by a free caller with the
\* default colours encodes "https://example.com", returns a raster image with
\* the watermark frame, writes no vector image, and suggests the file name
\* base "example.com"; the base is the host of the normalized payload without
\* a leading www. and without a port.
C18_ExampleEndToEnd ==
    ExampleRendered =>
        /\ resp.qr_code.watermark = "Created by ColorQR.app"
        /\ resp.qr_code.margin > 0
        /\ <<resp.id, "jpg">> \in files
        /\ ~resp.svg_available
        /\ resp.svg_bytes = NoSvg
        /\ <<resp.id, "svg">> \notin files
        /\ session.download_name = ExampleCom \o <<"-", "<utcnow>">>
        /\ resp.req.data = ExampleCom =>
              resp.qr_code.encoded =
                  <<"h", "t", "t", "p", "s", ":", "/", "/",
                    "e", "x", "a", "m", "p", "l", "e", ".", "c", "o", "m">>

C18_Witness ==
    /\ ExampleRendered
    /\ resp.req.data = ExampleCom
    /\ resp.qr_code.encoded = HTTPS \o ExampleCom
    /\ resp.qr_code.size = 512 + 2 * 25
    /\ files = {<<1, "jpg">>}
    /\ session.download_name = ExampleCom \o <<"-", "<utcnow>">>

-----------------------------------------------------------------------------
(* The candidate loop of create.                                             *)

\* The ids of the rows in the table.
StoredIds == {l.id : l \in links}

\* Request p gave up: every candidate it drew was in the table.
GaveUp(p) ==
    /\ procs[p].pc = "done"
    /\ procs[p].code = 500
    /\ procs[p].error = "Could not generate unique id"

\* C19 as stated: a create that found a candidate not present in the store
\* persists exactly one record under it.
C19_PersistsFirstFree ==
    [][\A p \in Procs :
          (procs[p].pc = "commit" /\ procs'[p].pc = "done") =>
              /\ procs'[p].code = 200
              /\ Cardinality(links') = Cardinality(links) + 1]_vars

\* C19, amended: create draws at most 5 candidates; it settles on the first
\* candidate that is not in the store when looked up, and persists exactly
\* one record under it, unless another create has committed the same id
\* since the lookup: then the insert fails, the request ends with an error
\* and persists no record; if all 5 candidates are in the store the request
\* ends with the error "Could not generate unique id" and persists no record.
C19_BoundedCandidates ==
    [][\A p \in Procs :
          /\ procs[p].pc = "loop" => procs[p].tries \in 0..(MaxTries - 1)
          /\ \A c \in Ids : (procs[p].pc = "loop" /\ create_try(p, c)) =>
                /\ links' = links
                /\ c \notin StoredIds =>
                      /\ procs'[p].pc = "commit"
                      /\ procs'[p].row.id = c
                /\ c \in StoredIds =>
                      /\ procs'[p].pc \in {"loop", "done"}
                      /\ procs'[p].pc = "loop" =>
                            /\ procs'[p].tries = procs[p].tries + 1
                            /\ procs'[p].tries < MaxTries
                      /\ procs'[p].pc = "done" =>
                            /\ procs[p].tries = MaxTries - 1
                            /\ GaveUp(p)'
          /\ (procs[p].pc = "commit" /\ procs'[p].pc = "done") =>
                IF procs[p].row.id \notin StoredIds
                THEN /\ procs'[p].code = 200
                     /\ links' = links \cup {procs[p].row}
                     /\ Cardinality(links') = Cardinality(links) + 1
                     /\ procs'[p].id = procs[p].row.id
                ELSE /\ procs'[p].code = 500
                     /\ procs'[p].error = "IntegrityError"
                     /\ links' = links
          /\ (GaveUp(p) /\ procs'[p].pc = "idle") =>
                /\ resp'.code = 500
                /\ resp'.error = "Could not generate unique id"
                /\ links' = links]_vars

\* A create gave up after its fifth candidate while the store holds a row.
C19_Witness ==
    \E p \in Procs :
        /\ GaveUp(p)
        /\ links # {}
        /\ \E q \in Procs \ {p} : procs[q].pc = "loop" /\ procs[q].tries = MaxTries - 1

-----------------------------------------------------------------------------
(* The watermark frame.                                                      *)

\* The two rectangles have a pixel in common.
Overlap(r, q) ==
    /\ r.left < q.right /\ q.left < r.right
    /\ r.top < q.bottom /\ q.top < r.bottom
    /\ r.left < r.right /\ r.top < r.bottom

\* max(floor(0.05 * min(W, H)), 24) for the three sizes.
MarginFor(W, H) ==
    LET side == IF W <= H THEN W ELSE H
    IN  CASE side = 256  -> 24
          [] side = 512  -> 25
          [] side = 1024 -> 51

Framed == resp.op = "add_watermark_border"

\* The frame is the image grown by the margin on every side, with the image
\* at offset (m, m).
FrameGrowsCanvas ==
    Framed =>
        LET m == MarginFor(resp.W, resp.H)
        IN  /\ resp.frame.width = resp.W + 2 * m
            /\ resp.frame.height = resp.H + 2 * m
            /\ resp.frame.image = rect(m, m, m + resp.W, m + resp.H)

\* C20: for the sizes 256, 512 and 1024 the frame is (W+2m) x (H+2m) with
\* m = max(floor(0.05*min(W,H)), 24), the image sits at offset (m, m), and
\* every watermark strip lies inside the added margin: no strip has a pixel
\* in common with the original W x H square.
C20_StripsInsideMargin ==
    /\ FrameGrowsCanvas
    /\ Framed => \A st \in resp.frame.strips : ~Overlap(st, resp.frame.image)

\* The text blocks of a strip are drawn over rows or columns of the image.
TextOverImage ==
    /\ Framed
    /\ \E b \in resp.frame.blocks : Overlap(b, resp.frame.image)

-----------------------------------------------------------------------------
(* What an update leaves alone.                                              *)

\* The last request was an update that went through.
Updated == resp.op = "update" /\ resp.code = 200

\* C21: the id, owner and creation time of a link never change while it is
\* in the store; an update changes nothing but the target, the label and
\* the update time of the row it addresses, and no other row of the store.
C21_UpdateFrame ==
    [][/\ \A l \in links : \A r \in links' :
              r.id = l.id => (r.owner_email = l.owner_email /\ r.created_at = l.created_at)
       /\ resp'.op = "update" =>
              /\ {l \in links : l.id # resp'.id} = {r \in links' : r.id # resp'.id}
              /\ {l.id : l \in links} = {r.id : r \in links'}
              /\ \A r \in links' : r.updated_at >= r.created_at]_vars

\* An update rewrote one of two links some time after it was created.
C21_Witness ==
    /\ Updated
    /\ \E l \in links :
          /\ l.id = resp.id
          /\ l.updated_at > l.created_at
          /\ l.target_url = <<"H", "T", "T", "P", ":", "/", "/", "b">>
    /\ \E l \in links : l.id # resp.id /\ l.updated_at = l.created_at

-----------------------------------------------------------------------------
(* Concurrent updates and deletes of one link.                               *)

\* Every request has been answered.
AllSettled == \A p \in Procs : procs[p].pc = "settled"

\* The requests of one kind on the id that went through.
Done(op, id) ==
    {p \in Procs : procs[p].pc = "settled" /\ procs[p].op = op /\ procs[p].id = id
                   /\ procs[p].code = 200}

\* The row has the target and the label some update asked for, or, if no
\* update went through, the ones it was created with.
OfOneUpdate(row) ==
    \/ \E p \in Done("update", row.id) :
          row.target_url = procs[p].target /\ row.label = procs[p].label
    \/ /\ Done("update", row.id) = {}
       /\ row.target_url = HTTPS \o <<"a", ".", "c", "o">>
       /\ row.label = NoStr

\* A delete that went through leaves no row under the id.
DeletedStaysDeleted ==
    \A i \in Ids : (AllSettled /\ Done("delete", i) # {}) => rows_of(i) = {}

\* C22: when concurrent updates and deletes of one link by its owner have
\* all been answered, the store is as after some serial order of them: the
\* row is absent, or it has the target and the label of exactly one of the
\* updates; and a deleted row is not brought back by an update.
C22_SerialOutcome ==
    /\ DeletedStaysDeleted
    /\ AllSettled => \A row \in links : OfOneUpdate(row)

-----------------------------------------------------------------------------
(* Dynamic renders that fail.                                                *)

\* C23: a dynamic render request that fails leaves the link store as it
\* was, and every link in the store has the raster image that the render
\* request which created it persisted under its id.
C23_FailedRenderStoresNothing ==
    [][/\ (resp'.op = "generate_qr" /\ resp'.req.data_type = "dynamic" /\ resp'.code # 200)
              => links' = links
       /\ \A l \in links' : has_file(dynfiles', l.id, "jpg")]_vars

-----------------------------------------------------------------------------
(* Resolution after updates and deletes.                                     *)

\* Where the id leads when the table has no row for it.
LegacyOrDefault(id) == IF LegacyHas(id) THEN legacy.data[id].url ELSE DefaultLanding

\* Where the id leads: the target of its row, else the legacy url, else the
\* default landing page.
Resolves(id) ==
    IF \E l \in links : l.id = id
    THEN (CHOOSE l \in links : l.id = id).target_url
    ELSE LegacyOrDefault(id)

Deleted(id) == resp.op = "delete" /\ resp.code = 200 /\ resp.id = id

\* C24: after a successful update(id, t) every resolve of the id redirects
\* to normalize(t) until the next successful update or delete of the id, and
\* after a successful delete of an id the id leads to the legacy url, if
\* there is one, and to the default landing page otherwise, whatever request
\* comes next.
C24_DeleteIsFinal ==
    [][/\ \A i \in Ids, t \in UpdateUrls :
             (resp'.op = "update" /\ resp'.code = 200 /\ dynamic_update(i, t, <<"L", " ">>))
                 => Resolves(i)' = NormalForm(t)
       /\ \A i \in Ids : Deleted(i) => Resolves(i)' = LegacyOrDefault(i)]_vars

\* Where an id leads changes only with a successful create, update or delete
\* of the id: an update makes it normalize(t), a delete the legacy url or the
\* default landing page, and a create, which may issue the id of a deleted
\* record again, the new record's target.
ResolveFollowsStore ==
    [][/\ \A i \in Ids, t \in UpdateUrls :
             (resp'.op = "update" /\ resp'.code = 200 /\ dynamic_update(i, t, <<"L", " ">>))
                 => Resolves(i)' = NormalForm(t)
       /\ \A i \in Ids :
             (resp'.op = "delete" /\ resp'.code = 200 /\ dynamic_delete(i))
                 => /\ Resolves(i)' = LegacyOrDefault(i)
                    /\ \A l \in links' : l.id # i
       /\ \A i \in UrlIds :
             Resolves(i)' # Resolves(i)
                 => /\ resp'.op \in {"create", "update", "delete"}
                    /\ resp'.code = 200
                    /\ resp'.id = i
       /\ \A i \in UrlIds :
             (resp'.op = "redirect" /\ resp'.id = i) => resp'.location = Resolves(i)']_vars

-----------------------------------------------------------------------------
(* Entitlement and subscription events.                                      *)

\* The stored status of the user is that of an active subscriber.
SubActive(e) ==
    /\ users[e] # NoRow
    /\ users[e].is_sub_pro
    /\ users[e].subscription_status = "active"

\* The caller is logged in, is no administrator and has no debug override.
PlainCaller ==
    /\ current_user # NoUser
    /\ LowerStr(current_user) \notin PREMIUM_EMAILS
    /\ ~session.pro_debug

\* The step is a verified event of the type for the user's customer.
EventFor(e, types) ==
    /\ users[e] # NoRow
    /\ resp'.op = "webhook"
    /\ \E t \in types, st \in SubStatuses :
          /\ stripe_webhook(t, users[e].stripe_customer_id, st, TRUE)
          /\ resp'.type = t
          /\ resp'.status = st

\* The step is a checkout of the user that reports an active subscription.
ActiveCheckout(e) ==
    \E who \in {Alice, Bob} :
        /\ LowerStr(who) = e
        /\ payment_success("subscription", "paid", who, "active", customer_of(who))

====
